---------------------------- MODULE Spec2Model ----------------------------
(***************************************************************************)
(* A model of hmux: middleware composition and route groups layered over   *)
(* net/http.ServeMux (src/mux.go, the Group type of src/unnamed/part_000,  *)
(* src/router.go).                                                         *)
(*                                                                         *)
(* Strings are sequences of one-character strings.  A middleware slice is  *)
(* a Go slice: a reference to a backing array of the heap plus a length;   *)
(* its capacity is the length of the backing array.  A composite handler   *)
(* is the stack of middleware closures around a terminal handler.          *)
(***************************************************************************)
EXTENDS Integers, Sequences, FiniteSets, TLC

VARIABLES
    mux,      \* the Mux: [mux |-> the ServeMux pattern table, middleware |-> slice]
    groups,   \* the Group objects the program holds, in creation order
    heap,     \* backing arrays of the middleware slices: array id -> elements
    growth,   \* the spare capacity append gives an array it allocates
    lastOp,   \* the last call made on the API, whether it returned or panicked,
              \* and (ServeHTTP) what the handlers recorded
    pure      \* the last call of a package-level function: [fn, in, out]

vars == <<mux, groups, heap, growth, lastOp, pure>>

\* ------------------------------------------------------------------ bounds

\* Objects the program creates: Groups (Group and With both create one)
\* plus routes of the ServeMux.
MaxObjects == 2
\* Longest middleware list a scope accumulates.
MaxMw == 2
\* Spare capacity append may give a backing array it allocates.
MaxSlack == 1
\* Longest path text of the patterns given to joinPattern / splitMethodPath.
MaxPath == 2
\* Longest prefix text given to joinPattern.
MaxPrefix == 4
\* Longest middleware list given to wrap directly.
MaxChain == 3
\* The most scopes nested below the Mux, and the most routes, in SpecNested.
MaxNest == 3
MaxNestRoutes == 1
\* The most requests in flight at once in SpecServe.
MaxInFlight == 2

\* ----------------------------------------------------------------- strings

RECURSIVE SeqsUpTo(_, _)
\* All sequences over S of length at most n.
SeqsUpTo(S, n) ==
    IF n = 0 THEN {<<>>}
    ELSE LET shorter == SeqsUpTo(S, n - 1)
         IN  shorter \cup {Append(s, x) : s \in shorter, x \in S}

GET     == <<"G", "E", "T">>
POST    == <<"P", "O", "S", "T">>
PUT     == <<"P", "U", "T">>
DELETE  == <<"D", "E", "L", "E", "T", "E">>
PATCH   == <<"P", "A", "T", "C", "H">>
HEAD    == <<"H", "E", "A", "D">>
OPTIONS == <<"O", "P", "T", "I", "O", "N", "S">>
CONNECT == <<"C", "O", "N", "N", "E", "C", "T">>
TRACE   == <<"T", "R", "A", "C", "E">>

\* The cases of the switch in splitMethodPath.
Methods == {GET, POST, PUT, DELETE, PATCH, HEAD, OPTIONS, CONNECT, TRACE}

\* strings.Index: position of the first c in s, 0 when there is none.
Index(s, c) ==
    IF \E i \in 1..Len(s) : s[i] = c
    THEN CHOOSE i \in 1..Len(s) : s[i] = c /\ \A j \in 1..(i - 1) : s[j] # c
    ELSE 0

\* strings.Cut(s, sep) for a one-character sep.
Cut(s, sep) ==
    LET i == Index(s, sep)
    IN  IF i = 0
        THEN [before |-> s, after |-> <<>>, found |-> FALSE]
        ELSE [before |-> SubSeq(s, 1, i - 1),
              after  |-> SubSeq(s, i + 1, Len(s)),
              found  |-> TRUE]

\* strings.HasPrefix
HasPrefix(s, p) == Len(s) >= Len(p) /\ SubSeq(s, 1, Len(p)) = p

\* strings.HasSuffix
HasSuffix(s, p) == Len(s) >= Len(p) /\ SubSeq(s, Len(s) - Len(p) + 1, Len(s)) = p

\* strings.TrimSuffix: s without the suffix p, once, when s ends with it.
TrimSuffix(s, p) == IF HasSuffix(s, p) THEN SubSeq(s, 1, Len(s) - Len(p)) ELSE s

\* A splitMethodPath that takes whatever precedes the first space as the
\* method, without the switch over the known methods.
splitMethodPath_AnyToken(pattern) ==
    LET c == Cut(pattern, " ")
    IN  IF ~c.found THEN [method |-> <<>>, path |-> pattern]
        ELSE [method |-> c.before, path |-> c.after]

\* splitMethodPath of mux.go.
splitMethodPath(pattern) ==
    LET c == Cut(pattern, " ")
    IN  IF ~c.found THEN [method |-> <<>>, path |-> pattern]
        ELSE IF c.before \in Methods
             THEN [method |-> c.before, path |-> c.after]
             ELSE [method |-> <<>>, path |-> pattern]

\* A joinPattern that trims every trailing slash of the prefix
\* (strings.TrimRight in place of strings.TrimSuffix).
RECURSIVE TrimRight(_, _)
TrimRight(s, c) ==
    IF Len(s) > 0 /\ s[Len(s)] = c THEN TrimRight(SubSeq(s, 1, Len(s) - 1), c) ELSE s

joinPattern_TrimAll(prefix, pattern) ==
    LET sp     == splitMethodPath(pattern)
        pre    == TrimRight(prefix, "/")
        path   == IF ~HasPrefix(sp.path, <<"/">>) THEN <<"/">> \o sp.path ELSE sp.path
        joined == pre \o path
    IN  IF sp.method # <<>> THEN sp.method \o <<" ">> \o joined ELSE joined

\* A joinPattern that keeps the trailing slash of the prefix.
joinPattern_NoTrim(prefix, pattern) ==
    LET sp     == splitMethodPath(pattern)
        path   == IF ~HasPrefix(sp.path, <<"/">>) THEN <<"/">> \o sp.path ELSE sp.path
        joined == prefix \o path
    IN  IF sp.method # <<>> THEN sp.method \o <<" ">> \o joined ELSE joined

\* joinPattern of mux.go.
joinPattern(prefix, pattern) ==
    LET sp     == splitMethodPath(pattern)
        pre    == TrimSuffix(prefix, <<"/">>)
        path   == IF ~HasPrefix(sp.path, <<"/">>) THEN <<"/">> \o sp.path ELSE sp.path
        joined == pre \o path
    IN  IF sp.method # <<>> THEN sp.method \o <<" ">> \o joined ELSE joined

\* ------------------------------------------------- middleware and handlers

\* A middleware value: func(http.Handler) http.Handler.  Fn(n) is the
\* recording middleware named n of the tests; NilMw is the nil func value.
Fn(n) == [kind |-> "fn", name |-> n, mw |-> <<>>]
NilMw == [kind |-> "nil", name |-> "nil", mw |-> <<>>]
\* Chain(mw...): the closure func(h) { return wrap(h, mw) } over the
\* arguments mw, which Chain does not look at.
Chain(mw) == [kind |-> "chain", name |-> "chain", mw |-> mw]

\* A handler: the terminal handler term inside the middleware closures
\* layers (outermost first).  NilHandler is the nil http.Handler.
H(t) == [layers |-> <<>>, term |-> t]
NilHandler == [layers |-> <<>>, term |-> "nil"]

RECURSIVE wrapUp(_, _, _)
RECURSIVE wrapFrom(_, _, _)

\* A Chain closure that applies its middleware from the first to the last.
applyChain_Forward(c, h) == wrapUp(h, c.mw, 1)

\* The closure Chain returns, called on h: return wrap(h, mw).
applyChain(c, h) == wrapFrom(h, c.mw, Len(c.mw))

\* mw[i](h): the closure the recording middleware m returns around next,
\* or what the closure of a Chain returns.
Apply(m, next) ==
    IF m.kind = "chain" THEN applyChain(m, next)
    ELSE [layers |-> <<m.name>> \o next.layers, term |-> next.term]

Enter(n) == [who |-> n, what |-> "enter"]
Exit(n) == [who |-> n, what |-> "exit"]
Ran(t) == [who |-> t, what |-> "handler"]
\* Calling a nil handler or a nil middleware closure panics.
Panic == [who |-> "nil", what |-> "panic"]

Panicked(trace) == Len(trace) > 0 /\ trace[Len(trace)] = Panic

RECURSIVE Invoke(_)
\* h.ServeHTTP(w, r): what the closures and the terminal handler record.
\* A layer records its exit only when next.ServeHTTP returns.
Invoke(h) ==
    IF h.layers = <<>>
    THEN IF h.term = "nil" THEN <<Panic>> ELSE <<Ran(h.term)>>
    ELSE LET n     == Head(h.layers)
             inner == Invoke([h EXCEPT !.layers = Tail(@)])
         IN  IF Panicked(inner) THEN <<Enter(n)>> \o inner
             ELSE <<Enter(n)>> \o inner \o <<Exit(n)>>

\* A wrap whose loop runs from the first middleware to the last.
wrapUp(h, mw, i) == IF i > Len(mw) THEN h ELSE wrapUp(Apply(mw[i], h), mw, i + 1)

wrap_Forward(h, mw) == wrapUp(h, mw, 1)

\* The loop of wrap: for i := len(mw) - 1; i >= 0; i-- { h = mw[i](h) }
\* (indices here are 1-based).
wrapFrom(h, mw, i) == IF i < 1 THEN h ELSE wrapFrom(Apply(mw[i], h), mw, i - 1)

\* wrap of mux.go.
wrap(h, mw) == wrapFrom(h, mw, Len(mw))

\* ------------------------------------------------------------------ slices

\* The nil slice (Mux.middleware after New).
NilSlice == [arr |-> 0, len |-> 0]

\* The elements of slice s, and its capacity.
Elems(hp, s) == IF s.arr = 0 THEN <<>> ELSE SubSeq(hp[s.arr], 1, s.len)
Cap(hp, s) == IF s.arr = 0 THEN 0 ELSE Len(hp[s.arr])

\* n zero values of the element type.
Zeros(n) == [i \in 1..n |-> NilMw]

\* An append that, when it has to grow, starts the new array with xs.
append_Fresh(hp, s, xs, spare) ==
    LET n == s.len + Len(xs)
    IN  IF n <= Cap(hp, s)
        THEN IF s.arr = 0 THEN [heap |-> hp, slice |-> s]
             ELSE [heap  |-> [hp EXCEPT ![s.arr] =
                                 SubSeq(@, 1, s.len) \o xs \o SubSeq(@, n + 1, Len(@))],
                   slice |-> [arr |-> s.arr, len |-> n]]
        ELSE [heap  |-> Append(hp, xs \o Zeros(spare)),
              slice |-> [arr |-> Len(hp) + 1, len |-> Len(xs)]]

\* append(s, xs...): in place when the elements fit the capacity, otherwise
\* into a new array.  The language fixes only that the new array is
\* sufficiently large: it gets room for spare elements more than needed.
append(hp, s, xs, spare) ==
    LET n == s.len + Len(xs)
    IN  IF n <= Cap(hp, s)
        THEN IF s.arr = 0 THEN [heap |-> hp, slice |-> s]
             ELSE [heap  |-> [hp EXCEPT ![s.arr] =
                                 SubSeq(@, 1, s.len) \o xs \o SubSeq(@, n + 1, Len(@))],
                   slice |-> [arr |-> s.arr, len |-> n]]
        ELSE [heap  |-> Append(hp, Elems(hp, s) \o xs \o Zeros(spare)),
              slice |-> [arr |-> Len(hp) + 1, len |-> n]]

\* A Group that keeps its parent's slice instead of copying it.
copyMiddleware_Alias(hp, s) == [heap |-> hp, slice |-> s]

\* A copy into make([]T, 0, len(s)): copy copies min(len(dst), len(src)) = 0
\* elements.
copyMiddleware_ZeroLen(hp, s) ==
    [heap |-> Append(hp, Zeros(s.len)), slice |-> [arr |-> Len(hp) + 1, len |-> 0]]

\* mw := make([]func(http.Handler) http.Handler, len(s)); copy(mw, s)
copyMiddleware(hp, s) ==
    [heap |-> Append(hp, Elems(hp, s)), slice |-> [arr |-> Len(hp) + 1, len |-> s.len]]

RECURSIVE FirstSeen(_, _)
\* The distinct non-nil array ids of refs, in order of first appearance.
FirstSeen(refs, acc) ==
    IF refs = <<>> THEN acc
    ELSE LET a == Head(refs)
         IN  FirstSeen(Tail(refs),
                       IF a = 0 \/ (\E k \in 1..Len(acc) : acc[k] = a)
                       THEN acc ELSE Append(acc, a))

\* Garbage collection: the backing arrays no scope refers to are dropped
\* and the live ones numbered in the order Mux, groups[1], groups[2], ...
Collect(m, gs, hp) ==
    LET live   == FirstSeen(<<m.middleware.arr>>
                            \o [i \in 1..Len(gs) |-> gs[i].middleware.arr], <<>>)
        id(a)  == IF a = 0 THEN 0 ELSE CHOOSE k \in 1..Len(live) : live[k] = a
        mv(s)  == [arr |-> id(s.arr), len |-> s.len]
    IN  [mux    |-> [m EXCEPT !.middleware = mv(@)],
         groups |-> [i \in 1..Len(gs) |-> [gs[i] EXCEPT !.middleware = mv(@)]],
         heap   |-> [k \in 1..Len(live) |-> hp[live[k]]]]

\* ------------------------------------------------------------- operations

\* The loop of Use: some argument is nil.
HasNil(mw) == \E i \in 1..Len(mw) : mw[i] = NilMw

RECURSIVE CallsNil(_)
\* wrap(h, mw) calls a nil func value: some mw[i] is nil, or is a Chain
\* closure whose wrap does.
CallsNil(mw) ==
    \E i \in 1..Len(mw) :
        mw[i] = NilMw \/ (mw[i].kind = "chain" /\ CallsNil(mw[i].mw))

RECURSIVE UpToNil(_)
\* The arguments that precede the first nil one.
UpToNil(mw) ==
    IF mw = <<>> \/ Head(mw) = NilMw THEN <<>> ELSE <<Head(mw)>> \o UpToNil(Tail(mw))

\* A Use that checks each argument as it appends it.
Use_CheckWhileAppending(hp, s, mw, spare) ==
    LET r == append(hp, s, UpToNil(mw), spare)
    IN  [panic |-> HasNil(mw), heap |-> r.heap, slice |-> r.slice]

\* Mux.Use and Group.Use on the receiver's slice s: panic when an argument
\* is nil, before anything is appended; otherwise append them all.
Use(hp, s, mw, spare) ==
    IF HasNil(mw) THEN [panic |-> TRUE, heap |-> hp, slice |-> s]
    ELSE LET r == append(hp, s, mw, spare)
         IN  [panic |-> FALSE, heap |-> r.heap, slice |-> r.slice]

\* A prefix check that insists on the leading slash of every prefix.
prefixInvalid_RejectEmpty(prefix) == ~HasPrefix(prefix, <<"/">>)

\* A check that lets every prefix through.
prefixInvalid_AcceptAll(prefix) == FALSE

\* The check of Mux.Group and Group.Group:
\* prefix != "" && !strings.HasPrefix(prefix, "/")
prefixInvalid(prefix) == prefix # <<>> /\ ~HasPrefix(prefix, <<"/">>)

\* The pointer every Group holds to its Mux (there is one Mux).
TheMux == "m"

\* No Group: what a call that panics returns.
NoGroup == [mux |-> TheMux, prefix |-> <<>>, middleware |-> NilSlice]

\* Mux.Group(prefix) on Mux m: the Group it returns and the heap after it.
Mux_Group(m, hp, prefix) ==
    IF prefixInvalid(prefix) THEN [panic |-> TRUE, heap |-> hp, group |-> NoGroup]
    ELSE LET cp == copyMiddleware(hp, m.middleware)
         IN  [panic |-> FALSE, heap |-> cp.heap,
              group |-> [mux |-> TheMux, prefix |-> prefix, middleware |-> cp.slice]]

\* A Group.Group that stores its own prefix only, not the joined one.
Group_Group_OwnPrefix(g, hp, prefix) ==
    IF prefixInvalid(prefix) THEN [panic |-> TRUE, heap |-> hp, group |-> NoGroup]
    ELSE LET cp == copyMiddleware(hp, g.middleware)
         IN  [panic |-> FALSE, heap |-> cp.heap,
              group |-> [mux |-> g.mux, prefix |-> prefix, middleware |-> cp.slice]]

\* Group.Group(prefix) on Group g.
Group_Group(g, hp, prefix) ==
    IF prefixInvalid(prefix) THEN [panic |-> TRUE, heap |-> hp, group |-> NoGroup]
    ELSE LET cp == copyMiddleware(hp, g.middleware)
         IN  [panic |-> FALSE, heap |-> cp.heap,
              group |-> [mux |-> g.mux, prefix |-> joinPattern(g.prefix, prefix),
                         middleware |-> cp.slice]]

\* A With that calls Use on its receiver instead of on the new Group.
Mux_With_UseOnReceiver(m, hp, mw, spare) ==
    LET g == Mux_Group(m, hp, <<>>)
        u == Use(g.heap, m.middleware, mw, spare)
    IN  [panic |-> u.panic, heap |-> u.heap,
         recv  |-> [m EXCEPT !.middleware = u.slice], group |-> g.group]

\* Mux.With(mw...) on Mux m: g := m.Group(""); g.Use(mw...); return g.
\* recv is the receiver after the call.
Mux_With(m, hp, mw, spare) ==
    LET g == Mux_Group(m, hp, <<>>)
        u == Use(g.heap, g.group.middleware, mw, spare)
    IN  [panic |-> u.panic, heap |-> u.heap,
         recv  |-> m, group |-> [g.group EXCEPT !.middleware = u.slice]]

\* Group.With(mw...) on Group g: newG := g.Group(""); newG.Use(mw...);
\* return newG.
Group_With(g, hp, mw, spare) ==
    LET n == Group_Group(g, hp, <<>>)
        u == Use(n.heap, n.group.middleware, mw, spare)
    IN  [panic |-> u.panic, heap |-> u.heap,
         recv  |-> g, group |-> [n.group EXCEPT !.middleware = u.slice]]

\* A ServeMux that lets a later registration replace an earlier one.
registerPanics_Overwrite(table, pattern, handler) ==
    pattern = <<>> \/ handler = NilHandler

\* http.ServeMux.Handle refuses the empty pattern, the nil handler and a
\* pattern it already holds.
registerPanics(table, pattern, handler) ==
    pattern = <<>> \/ handler = NilHandler \/ pattern \in DOMAIN table

\* The pattern table with handler registered under pattern by scope s.
register(table, pattern, handler, s) ==
    [p \in DOMAIN table \cup {pattern} |->
        IF p = pattern THEN [handler |-> handler, by |-> s] ELSE table[p]]

\* A Mux.Handle that joins the pattern to the empty prefix, as a Group does.
Mux_Handle_Joined(m, hp, pattern, h) ==
    LET mw          == Elems(hp, m.middleware)
        fullPattern == joinPattern(<<>>, pattern)
        wrapped     == wrap(h, mw)
        panic       == CallsNil(mw) \/ registerPanics(m.mux, fullPattern, wrapped)
    IN  [panic |-> panic, full |-> fullPattern,
         mux   |-> IF panic THEN m
                   ELSE [m EXCEPT !.mux = register(@, fullPattern, wrapped, 0)]]

\* Mux.Handle(pattern, h) on Mux m: m.mux.Handle(pattern, m.wrap(h)).
\* Calling a nil middleware inside wrap panics, and so does the ServeMux
\* when it refuses the registration.  full is the pattern handed to it.
Mux_Handle(m, hp, pattern, h) ==
    LET mw      == Elems(hp, m.middleware)
        wrapped == wrap(h, mw)
        panic   == CallsNil(mw) \/ registerPanics(m.mux, pattern, wrapped)
    IN  [panic |-> panic, full |-> pattern,
         mux   |-> IF panic THEN m
                   ELSE [m EXCEPT !.mux = register(@, pattern, wrapped, 0)]]

\* Group.Handle(pattern, h) on Group g, which is scope s of Mux m:
\* fullPattern := joinPattern(g.prefix, pattern);
\* g.mux.mux.Handle(fullPattern, wrap(h, g.middleware)).
Group_Handle(g, s, m, hp, pattern, h) ==
    LET fullPattern == joinPattern(g.prefix, pattern)
        mw          == Elems(hp, g.middleware)
        wrapped     == wrap(h, mw)
        panic       == CallsNil(mw) \/ registerPanics(m.mux, fullPattern, wrapped)
    IN  [panic |-> panic, full |-> fullPattern,
         mux   |-> IF panic THEN m
                   ELSE [m EXCEPT !.mux = register(@, fullPattern, wrapped, s)]]

\* ------------------------------------------------------------------ inputs

A == Fn("A")
B == Fn("B")
ArgLists == {<<>>, <<A>>, <<B>>, <<A, B>>, <<NilMw, B>>, <<A, NilMw>>}
Handlers == {H("h1"), NilHandler}
PrefixInputs == {<<>>, <<"/", "a">>, <<"a">>}
PatternInputs == {<<"/", "x">>, GET \o <<" ", "/", "x">>}

\* The scopes: 0 is the Mux, i >= 1 is groups[i].
Scopes == 0..Len(groups)
Slice(s) == IF s = 0 THEN mux.middleware ELSE groups[s].middleware
\* The middleware list of scope s.
List(s) == Elems(heap, Slice(s))
Prefix(s) == IF s = 0 THEN <<>> ELSE groups[s].prefix
\* The pattern table of the ServeMux.
Routes == mux.mux
\* The Groups and routes created so far.
Objects == Len(groups) + Cardinality(DOMAIN mux.mux)

Call(op, s, mw, str, h, ok) ==
    [op |-> op, scope |-> s, mw |-> mw, str |-> str, h |-> h, ok |-> ok, record |-> <<>>]

NoCall == [fn |-> "none", in |-> <<>>, out |-> <<>>]

\* New(): a Mux with an empty ServeMux and a nil middleware slice.
Init ==
    /\ mux = [mux |-> <<>>, middleware |-> NilSlice]
    /\ groups = <<>>
    /\ heap = <<>>
    /\ growth \in 0..MaxSlack
    /\ lastOp = Call("New", 0, <<>>, <<>>, "", TRUE)
    /\ pure = NoCall

\* The state after a call that left Mux m, Groups gs and heap hp.
Becomes(m, gs, hp) ==
    LET c == Collect(m, gs, hp)
    IN  mux' = c.mux /\ groups' = c.groups /\ heap' = c.heap

\* m.Use(mw...)
MuxUse(mw) ==
    LET r == Use(heap, mux.middleware, mw, growth)
    IN  /\ lastOp.ok
        /\ r.slice.len <= MaxMw
        /\ Becomes([mux EXCEPT !.middleware = r.slice], groups, r.heap)
        /\ lastOp' = Call("Use", 0, mw, <<>>, "", ~r.panic)
        /\ UNCHANGED <<growth, pure>>

\* g.Use(mw...)
GroupUse(g, mw) ==
    LET r == Use(heap, groups[g].middleware, mw, growth)
    IN  /\ lastOp.ok
        /\ r.slice.len <= MaxMw
        /\ Becomes(mux, [groups EXCEPT ![g].middleware = r.slice], r.heap)
        /\ lastOp' = Call("Use", g, mw, <<>>, "", ~r.panic)
        /\ UNCHANGED <<growth, pure>>

\* m.Group(prefix)
MuxGroup(prefix) ==
    LET r == Mux_Group(mux, heap, prefix)
    IN  /\ lastOp.ok
        /\ r.panic \/ Objects < MaxObjects
        /\ Becomes(mux, IF r.panic THEN groups ELSE Append(groups, r.group), r.heap)
        /\ lastOp' = Call("Group", 0, <<>>, prefix, "", ~r.panic)
        /\ UNCHANGED <<growth, pure>>

\* g.Group(prefix)
GroupGroup(g, prefix) ==
    LET r == Group_Group(groups[g], heap, prefix)
    IN  /\ lastOp.ok
        /\ r.panic \/ Objects < MaxObjects
        /\ Becomes(mux, IF r.panic THEN groups ELSE Append(groups, r.group), r.heap)
        /\ lastOp' = Call("Group", g, <<>>, prefix, "", ~r.panic)
        /\ UNCHANGED <<growth, pure>>

\* m.With(mw...).  When Use panics the new Group is never returned.
MuxWith(mw) ==
    LET r == Mux_With(mux, heap, mw, growth)
    IN  /\ lastOp.ok
        /\ r.panic \/ Objects < MaxObjects
        /\ r.group.middleware.len <= MaxMw /\ r.recv.middleware.len <= MaxMw
        /\ Becomes(r.recv, IF r.panic THEN groups ELSE Append(groups, r.group), r.heap)
        /\ lastOp' = Call("With", 0, mw, <<>>, "", ~r.panic)
        /\ UNCHANGED <<growth, pure>>

\* g.With(mw...)
GroupWith(g, mw) ==
    LET r  == Group_With(groups[g], heap, mw, growth)
        gs == [groups EXCEPT ![g] = r.recv]
    IN  /\ lastOp.ok
        /\ r.panic \/ Objects < MaxObjects
        /\ r.group.middleware.len <= MaxMw /\ r.recv.middleware.len <= MaxMw
        /\ Becomes(mux, IF r.panic THEN gs ELSE Append(gs, r.group), r.heap)
        /\ lastOp' = Call("With", g, mw, <<>>, "", ~r.panic)
        /\ UNCHANGED <<growth, pure>>

\* m.Handle(pattern, h) and m.HandleFunc(pattern, h), which calls it.
MuxHandle(pattern, h) ==
    LET r == Mux_Handle(mux, heap, pattern, h)
    IN  /\ lastOp.ok
        /\ r.panic \/ Objects < MaxObjects
        /\ mux' = r.mux
        /\ lastOp' = Call("Handle", 0, <<>>, pattern, h.term, ~r.panic)
        /\ UNCHANGED <<groups, heap, growth, pure>>

\* g.Handle(pattern, h) and g.HandleFunc(pattern, h), which calls it.
GroupHandle(g, pattern, h) ==
    LET r == Group_Handle(groups[g], g, mux, heap, pattern, h)
    IN  /\ lastOp.ok
        /\ r.panic \/ Objects < MaxObjects
        /\ mux' = r.mux
        /\ lastOp' = Call("Handle", g, <<>>, pattern, h.term, ~r.panic)
        /\ UNCHANGED <<groups, heap, growth, pure>>

\* m.ServeHTTP(w, r) for a request the ServeMux matches to pattern p: the
\* handler registered under p runs.
ServeHTTP(p) ==
    /\ lastOp.ok
    /\ p \in DOMAIN mux.mux
    /\ lastOp' = [Call("ServeHTTP", 0, <<>>, p, "", TRUE)
                     EXCEPT !.record = Invoke(mux.mux[p].handler)]
    /\ UNCHANGED <<mux, groups, heap, growth, pure>>

\* A panic leaves the call; the caller that recovers it (as the tests do,
\* with a deferred recover()) goes on with the objects it holds.
Recover ==
    /\ ~lastOp.ok
    /\ lastOp' = Call("recover", 0, <<>>, <<>>, "", TRUE)
    /\ UNCHANGED <<mux, groups, heap, growth, pure>>

Next ==
    \/ \E mw \in ArgLists : MuxUse(mw)
    \/ \E g \in 1..Len(groups), mw \in ArgLists : GroupUse(g, mw)
    \/ \E prefix \in PrefixInputs : MuxGroup(prefix)
    \/ \E g \in 1..Len(groups), prefix \in PrefixInputs : GroupGroup(g, prefix)
    \/ \E mw \in ArgLists : MuxWith(mw)
    \/ \E g \in 1..Len(groups), mw \in ArgLists : GroupWith(g, mw)
    \/ \E pattern \in PatternInputs, h \in Handlers : MuxHandle(pattern, h)
    \/ \E g \in 1..Len(groups), pattern \in PatternInputs, h \in Handlers :
           GroupHandle(g, pattern, h)
    \/ \E p \in DOMAIN mux.mux : ServeHTTP(p)
    \/ Recover

Spec == Init /\ [][Next]_vars

\* ------------------------------------------- the package-level functions

\* The texts a pattern is built from: a token, with or without a space
\* after it, and a path text.
Tokens ==
    Methods \cup {<<>>, <<"g", "e", "t">>, <<"G", "E">>, <<"G", "e", "t">>,
                  <<"U", "N", "K", "N", "O", "W", "N">>}
PathTexts == SeqsUpTo({"/", "x", " "}, MaxPath)
PurePatterns == {t \o sp \o q : t \in Tokens, sp \in {<<>>, <<" ">>}, q \in PathTexts}
PurePrefixes == SeqsUpTo({"/", "a"}, MaxPrefix)
PureLists == SeqsUpTo({Fn("A"), Fn("B"), Fn("C")}, MaxChain)
PureHandlers == {H("h1"), H("h2")}

\* The arguments of one call of joinPattern / splitMethodPath, or of wrap.
PureInput(prefix, pattern, h, mw) ==
    [prefix |-> prefix, pattern |-> pattern, h |-> h, mw |-> mw]
JoinInputs ==
    {PureInput(prefix, pattern, H("h1"), <<>>) :
        prefix \in PurePrefixes, pattern \in PurePatterns}
WrapInputs ==
    {PureInput(<<>>, <<>>, h, mw) : h \in PureHandlers, mw \in PureLists}

InitPure ==
    /\ mux = [mux |-> <<>>, middleware |-> NilSlice]
    /\ groups = <<>>
    /\ heap = <<>>
    /\ growth = 0
    /\ lastOp = Call("New", 0, <<>>, <<>>, "", TRUE)
    /\ pure \in {[fn |-> "input", in |-> i, out |-> <<>>] : i \in JoinInputs \cup WrapInputs}

\* joinPattern(prefix, pattern)
CallJoinPattern ==
    /\ pure.fn = "input" /\ pure.in \in JoinInputs
    /\ pure' = [fn |-> "joinPattern", in |-> pure.in,
                out |-> joinPattern(pure.in.prefix, pure.in.pattern)]
    /\ UNCHANGED <<mux, groups, heap, growth, lastOp>>

\* splitMethodPath(pattern)
CallSplitMethodPath ==
    /\ pure.fn = "input" /\ pure.in \in JoinInputs
    /\ pure' = [fn |-> "splitMethodPath", in |-> pure.in,
                out |-> splitMethodPath(pure.in.pattern)]
    /\ UNCHANGED <<mux, groups, heap, growth, lastOp>>

\* wrap(h, mw), and the handler it returns serving one request.
CallWrap ==
    /\ pure.fn = "input" /\ pure.in \in WrapInputs
    /\ pure' = [fn |-> "wrap", in |-> pure.in,
                out |-> [handler |-> wrap(pure.in.h, pure.in.mw),
                         record  |-> Invoke(wrap(pure.in.h, pure.in.mw))]]
    /\ UNCHANGED <<mux, groups, heap, growth, lastOp>>

\* Chain(mw...)(h), the handler it returns serving one request, and the
\* same for a handler wrapped with the one-element list [Chain(mw...)].
CallChain ==
    /\ pure.fn = "input" /\ pure.in \in WrapInputs
    /\ pure' = [fn |-> "Chain", in |-> pure.in,
                out |-> [handler |-> Apply(Chain(pure.in.mw), pure.in.h),
                         record  |-> Invoke(Apply(Chain(pure.in.mw), pure.in.h)),
                         scope   |-> Invoke(wrap(pure.in.h, <<Chain(pure.in.mw)>>))]]
    /\ UNCHANGED <<mux, groups, heap, growth, lastOp>>

\* Chain values inside Chain and inside a list, for mw cut in two at i:
\* Chain(l..., Chain(r...))(h), Chain(Chain(l...), r...)(h), a handler wrapped
\* with the lists [l..., Chain(r...)] and [Chain(l...), r...], and the one
\* value Chain(mw...) called on h and on another handler; each serves one
\* request.
CallChainNested ==
    /\ pure.fn = "input" /\ pure.in \in WrapInputs
    /\ \E i \in 0..Len(pure.in.mw), other \in PureHandlers \ {pure.in.h} :
          LET l == SubSeq(pure.in.mw, 1, i)
              r == SubSeq(pure.in.mw, i + 1, Len(pure.in.mw))
              c == Chain(pure.in.mw)
          IN  pure' = [fn |-> "Chain.nested", in |-> pure.in,
                       out |-> [cut       |-> i,
                                inner     |-> Invoke(Apply(Chain(l \o <<Chain(r)>>), pure.in.h)),
                                outer     |-> Invoke(Apply(Chain(<<Chain(l)>> \o r), pure.in.h)),
                                listInner |-> Invoke(wrap(pure.in.h, l \o <<Chain(r)>>)),
                                listOuter |-> Invoke(wrap(pure.in.h, <<Chain(l)>> \o r)),
                                first     |-> Invoke(Apply(c, pure.in.h)),
                                second    |-> Invoke(Apply(c, other)),
                                other     |-> other]]
    /\ UNCHANGED <<mux, groups, heap, growth, lastOp>>

\* joinPattern twice, for a prefix and a second prefix q that Group
\* accepts: joinPattern(joinPattern(prefix, q), pattern), what
\* Group(prefix).Group(q).Handle(pattern) hands to the ServeMux, and
\* joinPattern(prefix, joinPattern(q, pattern)), what
\* Group(prefix).Handle(joinPattern(q, pattern)) hands to it.
CallJoinPatternTwice ==
    /\ pure.fn = "input" /\ pure.in \in JoinInputs
    /\ ~prefixInvalid(pure.in.prefix)
    /\ \E q \in PurePrefixes :
          /\ ~prefixInvalid(q)
          /\ pure' = [fn |-> "joinPattern.twice", in |-> pure.in,
                      out |-> [q      |-> q,
                               nested |-> joinPattern(joinPattern(pure.in.prefix, q),
                                                      pure.in.pattern),
                               flat   |-> joinPattern(pure.in.prefix,
                                                      joinPattern(q, pure.in.pattern))]]
    /\ UNCHANGED <<mux, groups, heap, growth, lastOp>>

NextPure ==
    \/ CallJoinPattern
    \/ CallSplitMethodPath
    \/ CallWrap
    \/ CallChain
    \/ CallChainNested
    \/ CallJoinPatternTwice

SpecPure == InitPure /\ [][NextPure]_vars

\* ------------------------------------------------- nested scopes, in a row

\* One program that makes a row of scopes, each from the one before it
\* (root.Group(p1).Group(p2).With(...)...), and registers on the innermost.
\* pure.in is the row of calls made, pure.out the pattern last handed to
\* the ServeMux.
NestPrefixes == {<<>>, <<"/">>, <<"/", "a">>, <<"/", "b">>, <<"/", "a", "/">>, <<"a">>}
NestPatterns ==
    {<<"/", "x">>, GET \o <<" ", "/", "x">>, <<"x">>, GET \o <<" ", "x">>,
     <<"a", "/", "x">>, <<"/">>}
NestArgLists == {<<>>, <<A>>}

\* The scope made last, the Mux when there is none.
Innermost == Len(groups)

NestCall(op, prefix) == [op |-> op, prefix |-> prefix]

InitNested ==
    /\ mux = [mux |-> <<>>, middleware |-> NilSlice]
    /\ groups = <<>>
    /\ heap = <<>>
    /\ growth \in 0..MaxSlack
    /\ lastOp = Call("New", 0, <<>>, <<>>, "", TRUE)
    /\ pure = [fn |-> "nest", in |-> <<>>, out |-> <<>>]

\* Group(prefix) on the innermost scope.
NestGroup(prefix) ==
    LET r == IF Innermost = 0 THEN Mux_Group(mux, heap, prefix)
             ELSE Group_Group(groups[Innermost], heap, prefix)
    IN  /\ lastOp.ok
        /\ r.panic \/ Len(groups) < MaxNest
        /\ Becomes(mux, IF r.panic THEN groups ELSE Append(groups, r.group), r.heap)
        /\ lastOp' = Call("Group", Innermost, <<>>, prefix, "", ~r.panic)
        /\ pure' = IF r.panic THEN pure
                   ELSE [pure EXCEPT !.in = Append(@, NestCall("Group", prefix))]
        /\ UNCHANGED growth

\* With(mw...) on the innermost scope.
NestWith(mw) ==
    LET r  == IF Innermost = 0 THEN Mux_With(mux, heap, mw, growth)
              ELSE Group_With(groups[Innermost], heap, mw, growth)
        m  == IF Innermost = 0 THEN r.recv ELSE mux
        gs == IF Innermost = 0 THEN groups ELSE [groups EXCEPT ![Innermost] = r.recv]
    IN  /\ lastOp.ok
        /\ r.panic \/ Len(groups) < MaxNest
        /\ Becomes(m, IF r.panic THEN gs ELSE Append(gs, r.group), r.heap)
        /\ lastOp' = Call("With", Innermost, mw, <<>>, "", ~r.panic)
        /\ pure' = IF r.panic THEN pure
                   ELSE [pure EXCEPT !.in = Append(@, NestCall("With", <<>>))]
        /\ UNCHANGED growth

\* Handle(pattern, h) on the innermost scope.
NestHandle(pattern, h) ==
    LET r == IF Innermost = 0 THEN Mux_Handle(mux, heap, pattern, h)
             ELSE Group_Handle(groups[Innermost], Innermost, mux, heap, pattern, h)
    IN  /\ lastOp.ok
        /\ r.panic \/ Cardinality(DOMAIN mux.mux) < MaxNestRoutes
        /\ mux' = r.mux
        /\ lastOp' = Call("Handle", Innermost, <<>>, pattern, h.term, ~r.panic)
        /\ pure' = [pure EXCEPT !.out = r.full]
        /\ UNCHANGED <<groups, heap, growth>>

\* A recovered panic, as in Recover; the row of calls is kept.
NestRecover ==
    /\ ~lastOp.ok
    /\ lastOp' = Call("recover", 0, <<>>, <<>>, "", TRUE)
    /\ UNCHANGED <<mux, groups, heap, growth, pure>>

NextNested ==
    \/ \E prefix \in NestPrefixes : NestGroup(prefix)
    \/ \E mw \in NestArgLists : NestWith(mw)
    \/ \E pattern \in NestPatterns : NestHandle(pattern, H("h1"))
    \/ NestRecover

SpecNested == InitNested /\ [][NextNested]_vars

\* ------------------------------------------------------ Chain values in use

\* A program that builds middleware with Chain and gives it to Use and With.
\* pure.out is the value the last call of Chain returned.
ChainInputs == {<<>>, <<A, B>>, <<A, NilMw>>}
PlainInputs == {<<NilMw>>}

\* Chain(mw...): returns the closure; there is no check of mw in it.
Chain_Call(mw) == [panic |-> FALSE, value |-> Chain(mw)]

InitChain ==
    /\ mux = [mux |-> <<>>, middleware |-> NilSlice]
    /\ groups = <<>>
    /\ heap = <<>>
    /\ growth \in 0..MaxSlack
    /\ lastOp = Call("New", 0, <<>>, <<>>, "", TRUE)
    /\ pure = [fn |-> "none", in |-> <<>>, out |-> Chain(<<>>)]

\* c := Chain(mw...)
ChainCall(mw) ==
    LET r == Chain_Call(mw)
    IN  /\ lastOp.ok
        /\ lastOp' = Call("Chain", 0, mw, <<>>, "", ~r.panic)
        /\ pure' = IF r.panic THEN pure ELSE [fn |-> "Chain", in |-> mw, out |-> r.value]
        /\ UNCHANGED <<mux, groups, heap, growth>>

\* The argument lists of Use and With: the Chain value held, or a plain one.
ChainArgLists == PlainInputs \cup {<<pure.out>> : x \in {pure.fn} \ {"none"}}

NextChain ==
    \/ \E mw \in ChainInputs : ChainCall(mw)
    \/ \E mw \in ChainArgLists : MuxUse(mw)
    \/ \E mw \in ChainArgLists : MuxWith(mw)
    \/ \E pattern \in PatternInputs : MuxHandle(pattern, H("h1"))
    \/ \E g \in 1..Len(groups), pattern \in PatternInputs :
           GroupHandle(g, pattern, H("h1"))
    \/ \E p \in DOMAIN mux.mux : ServeHTTP(p)
    \/ Recover

SpecChain == InitChain /\ [][NextChain]_vars

\* ------------------------------------------------- the ServeMux, directly

\* A program that also registers on, and serves from, the *http.ServeMux
\* that Mux.Handler() returns.
EnginePatterns == PatternInputs \cup {<<"/">>}
EngineHandlers == {H("h1"), H("h2")}
EngineArgLists == {<<A>>, <<B>>}

\* Who registered a route that no scope registered.
Engine == -1

\* m.Handler(): return m.mux, the ServeMux itself.
Mux_Handler(m) == m.mux

\* A registration on the ServeMux that wraps like Mux.Handle.
Engine_Handle_Wrapped(m, hp, pattern, h) ==
    LET wrapped == wrap(h, Elems(hp, m.middleware))
        panic   == registerPanics(Mux_Handler(m), pattern, wrapped)
    IN  [panic |-> panic,
         mux   |-> IF panic THEN m
                   ELSE [m EXCEPT !.mux = register(@, pattern, wrapped, Engine)]]

\* m.Handler().Handle(pattern, h): the ServeMux registers h as it is.
Engine_Handle(m, hp, pattern, h) ==
    LET panic == registerPanics(Mux_Handler(m), pattern, h)
    IN  [panic |-> panic,
         mux   |-> IF panic THEN m
                   ELSE [m EXCEPT !.mux = register(@, pattern, h, Engine)]]

InitEngine ==
    /\ mux = [mux |-> <<>>, middleware |-> NilSlice]
    /\ groups = <<>>
    /\ heap = <<>>
    /\ growth \in 0..MaxSlack
    /\ lastOp = Call("New", 0, <<>>, <<>>, "", TRUE)
    /\ pure = NoCall

\* m.Handler().Handle(pattern, h)
EngineHandle(pattern, h) ==
    LET r == Engine_Handle(mux, heap, pattern, h)
    IN  /\ lastOp.ok
        /\ r.panic \/ Objects < MaxObjects
        /\ mux' = r.mux
        /\ lastOp' = Call("Handler.Handle", 0, <<>>, pattern, h.term, ~r.panic)
        /\ UNCHANGED <<groups, heap, growth, pure>>

\* m.Handler().ServeHTTP(w, r) for a request matched to pattern p.
EngineServeHTTP(p) ==
    /\ lastOp.ok
    /\ p \in DOMAIN Mux_Handler(mux)
    /\ lastOp' = [Call("Handler.ServeHTTP", 0, <<>>, p, "", TRUE)
                     EXCEPT !.record = Invoke(Mux_Handler(mux)[p].handler)]
    /\ UNCHANGED <<mux, groups, heap, growth, pure>>

NextEngine ==
    \/ \E mw \in EngineArgLists : MuxUse(mw)
    \/ \E pattern \in EnginePatterns, h \in EngineHandlers : MuxHandle(pattern, h)
    \/ \E pattern \in EnginePatterns, h \in EngineHandlers : EngineHandle(pattern, h)
    \/ \E p \in DOMAIN mux.mux : ServeHTTP(p)
    \/ \E p \in DOMAIN mux.mux : EngineServeHTTP(p)
    \/ Recover

SpecEngine == InitEngine /\ [][NextEngine]_vars

\* ---------------------------------------------------- requests in flight

\* A program that registers, then starts serving and registers no more.
\* While it serves, pure.in holds the requests in flight: each has the
\* pattern it matched, the handler the ServeMux found for it, and what that
\* handler has recorded so far.
ServeArgLists == {<<A>>, <<B>>}

\* A dispatch that wraps the handler it finds in the Mux's list of the moment.
Mux_ServeHTTP_WrapNow(m, hp, p) == wrap(m.mux[p].handler, Elems(hp, m.middleware))

\* m.ServeHTTP(w, r) for a request matched to pattern p: m.mux.ServeHTTP
\* calls the handler registered under p.
Mux_ServeHTTP(m, hp, p) == m.mux[p].handler

Request(p, h, trace) == [pattern |-> p, handler |-> h, trace |-> trace]

\* The request has run its handler to the end.
Served(r) == Len(r.trace) = Len(Invoke(r.handler))

Serving == pure.fn = "serving"

InitServe ==
    /\ mux = [mux |-> <<>>, middleware |-> NilSlice]
    /\ groups = <<>>
    /\ heap = <<>>
    /\ growth \in 0..MaxSlack
    /\ lastOp = Call("New", 0, <<>>, <<>>, "", TRUE)
    /\ pure = NoCall

\* http.ListenAndServe(addr, m): from here on requests arrive.
ListenAndServe ==
    /\ ~Serving /\ lastOp.ok
    /\ DOMAIN mux.mux # {}
    /\ lastOp' = Call("ListenAndServe", 0, <<>>, <<>>, "", TRUE)
    /\ pure' = [fn |-> "serving", in |-> <<>>, out |-> <<>>]
    /\ UNCHANGED <<mux, groups, heap, growth>>

\* A goroutine of the server calls m.ServeHTTP for a request that matches
\* pattern p, and the ServeMux finds the handler.
BeginServe(p) ==
    /\ Serving
    /\ Len(pure.in) < MaxInFlight
    /\ p \in DOMAIN mux.mux
    /\ pure' = [pure EXCEPT !.in = Append(@, Request(p, Mux_ServeHTTP(mux, heap, p), <<>>))]
    /\ UNCHANGED <<mux, groups, heap, growth, lastOp>>

\* The handler of request i runs up to its next record.
StepServe(i) ==
    /\ Serving
    /\ ~Served(pure.in[i])
    /\ pure' = [pure EXCEPT !.in[i].trace =
                    Append(@, Invoke(pure.in[i].handler)[Len(@) + 1])]
    /\ UNCHANGED <<mux, groups, heap, growth, lastOp>>

NextServe ==
    \/ \E mw \in ServeArgLists : ~Serving /\ MuxUse(mw)
    \/ \E mw \in ServeArgLists : ~Serving /\ MuxWith(mw)
    \/ \E pattern \in PatternInputs : ~Serving /\ MuxHandle(pattern, H("h1"))
    \/ \E g \in 1..Len(groups), pattern \in PatternInputs :
           ~Serving /\ GroupHandle(g, pattern, H("h1"))
    \/ ~Serving /\ Recover
    \/ ListenAndServe
    \/ \E p \in DOMAIN mux.mux : BeginServe(p)
    \/ \E i \in 1..Len(pure.in) : StepServe(i)

SpecServe == InitServe /\ [][NextServe]_vars

\* ------------------------------------------------ two Use calls at once

\* A program in which two goroutines call Use on the Mux: goroutine 1
\* calls m.Use(A), goroutine 2 calls m.Use(B).  pure.in says whether the
\* caller serialises them and what the list was before; pure.out holds each
\* goroutine's position in Use and its local values.  The slice header
\* m.middleware is more than one word: its array and its length are read,
\* and written, one after the other, in either order.
RaceThreads == {1, 2}
RaceArgs(t) == IF t = 1 THEN <<A>> ELSE <<B>>
RaceSetupArgs == {<<Fn("X")>>}
HeaderWords == {"arr", "len"}

Racing == pure.fn = "race"

Thread(pc, mw, local, todo, result) ==
    [pc |-> pc, mw |-> mw, local |-> local, todo |-> todo, result |-> result]

\* The thread t of the running program, and the program with t replaced.
ThreadOf(t) == pure.out[t]
WithThread(t, th) == [pure EXCEPT !.out[t] = th]

InitRace ==
    /\ mux = [mux |-> <<>>, middleware |-> NilSlice]
    /\ groups = <<>>
    /\ heap = <<>>
    /\ growth \in 0..MaxSlack
    /\ lastOp = Call("New", 0, <<>>, <<>>, "", TRUE)
    /\ pure = NoCall

\* go m.Use(A); go m.Use(B): serialised by the caller, or not.
StartRace(serial) ==
    /\ ~Racing /\ lastOp.ok
    /\ lastOp' = Call("go", 0, <<>>, <<>>, "", TRUE)
    /\ pure' = [fn  |-> "race",
                in  |-> [serial |-> serial, before |-> List(0)],
                out |-> [t \in RaceThreads |->
                            Thread("idle", RaceArgs(t), NilSlice, {}, NilSlice)]]
    /\ UNCHANGED <<mux, groups, heap, growth>>

\* Calls that are not serialised start whenever they like.
RaceMayBegin_Unguarded(t) == TRUE

\* A caller that serialises registration starts a call only when no other
\* call is under way.
RaceMayBegin(t) ==
    pure.in.serial =>
        \A u \in RaceThreads \ {t} : ThreadOf(u).pc \in {"idle", "done", "panicked"}

\* Goroutine t enters Use.
UseBegin(t) ==
    /\ Racing /\ ThreadOf(t).pc = "idle"
    /\ RaceMayBegin(t)
    /\ pure' = WithThread(t, [ThreadOf(t) EXCEPT !.pc = "check"])
    /\ UNCHANGED <<mux, groups, heap, growth, lastOp>>

\* The loop over mw: panic on a nil argument.
UseCheck(t) ==
    /\ Racing /\ ThreadOf(t).pc = "check"
    /\ pure' = WithThread(t, IF HasNil(ThreadOf(t).mw)
                             THEN [ThreadOf(t) EXCEPT !.pc = "panicked"]
                             ELSE [ThreadOf(t) EXCEPT !.pc = "read", !.todo = HeaderWords])
    /\ UNCHANGED <<mux, groups, heap, growth, lastOp>>

\* The load of one word of m.middleware, the first argument of append.
UseRead(t, f) ==
    /\ Racing /\ ThreadOf(t).pc = "read" /\ f \in ThreadOf(t).todo
    /\ pure' = WithThread(t, [ThreadOf(t) EXCEPT
                                 !.local[f] = mux.middleware[f],
                                 !.todo = @ \ {f},
                                 !.pc = IF ThreadOf(t).todo = {f} THEN "append" ELSE "read"])
    /\ UNCHANGED <<mux, groups, heap, growth, lastOp>>

\* append(local, mw...).  A header read in two halves may name more
\* elements than its array has room for: the goroutine then reads memory
\* that is not the slice's, and the model follows it no further.
UseAppend(t) ==
    LET th == ThreadOf(t)
        r  == append(heap, th.local, th.mw, growth)
    IN  /\ Racing /\ th.pc = "append"
        /\ IF th.local.len > Cap(heap, th.local)
           THEN /\ pure' = WithThread(t, [th EXCEPT !.pc = "fault"])
                /\ heap' = heap
           ELSE /\ pure' = WithThread(t, [th EXCEPT !.pc = "write", !.result = r.slice,
                                                   !.todo = HeaderWords])
                /\ heap' = r.heap
        /\ UNCHANGED <<mux, groups, growth, lastOp>>

\* The store of one word of the result into m.middleware.
UseWrite(t, f) ==
    /\ Racing /\ ThreadOf(t).pc = "write" /\ f \in ThreadOf(t).todo
    /\ mux' = [mux EXCEPT !.middleware[f] = ThreadOf(t).result[f]]
    /\ pure' = WithThread(t, [ThreadOf(t) EXCEPT
                                 !.todo = @ \ {f},
                                 !.pc = IF ThreadOf(t).todo = {f} THEN "done" ELSE "write"])
    /\ UNCHANGED <<groups, heap, growth, lastOp>>

NextRace ==
    \/ \E mw \in RaceSetupArgs : ~Racing /\ MuxUse(mw)
    \/ \E serial \in BOOLEAN : StartRace(serial)
    \/ \E t \in RaceThreads : UseBegin(t)
    \/ \E t \in RaceThreads : UseCheck(t)
    \/ \E t \in RaceThreads, f \in HeaderWords : UseRead(t, f)
    \/ \E t \in RaceThreads : UseAppend(t)
    \/ \E t \in RaceThreads, f \in HeaderWords : UseWrite(t, f)

SpecRace == InitRace /\ [][NextRace]_vars

\* ------------------------------------------------- Handle, step by step

\* A program that calls Use, Handle and ServeHTTP on the Mux, with Handle
\* followed through the loop of wrap.  pure.in holds the arguments of the
\* Handle under way or last made, and the slice wrap was given; pure.out
\* holds the loop index i, the handler h built so far, and the middleware
\* functions called so far, in the order of the calls.
WrapArgLists == {<<A>>, <<B>>, <<A, B>>}

\* A loop that starts below the last middleware.
wrapFirst_SkipLast(mw) == Len(mw) - 1

\* wrap: i := len(mw) - 1 (indices here are 1-based).
wrapFirst(mw) == Len(mw)

HandleCall(pattern, h, mw) == [pattern |-> pattern, h |-> h, mw |-> mw]
WrapState(pc, i, h, applied) == [pc |-> pc, i |-> i, h |-> h, applied |-> applied]

\* No Handle is under way.
WrapIdle == pure.out.pc = "idle"

InitWrap ==
    /\ mux = [mux |-> <<>>, middleware |-> NilSlice]
    /\ groups = <<>>
    /\ heap = <<>>
    /\ growth \in 0..MaxSlack
    /\ lastOp = Call("New", 0, <<>>, <<>>, "", TRUE)
    /\ pure = [fn |-> "Handle", in |-> HandleCall(<<>>, H("h1"), <<>>),
               out |-> WrapState("idle", 0, H("h1"), <<>>)]

\* m.Handle(pattern, h) is called: m.wrap(h) calls wrap(h, m.middleware).
HandleEnter(pattern, h) ==
    LET mw == Elems(heap, mux.middleware)
    IN  /\ WrapIdle /\ lastOp.ok
        /\ lastOp' = Call("Handle.enter", 0, <<>>, pattern, h.term, TRUE)
        /\ pure' = [pure EXCEPT !.in = HandleCall(pattern, h, mw),
                                !.out = WrapState("wrap", wrapFirst(mw), h, <<>>)]
        /\ UNCHANGED <<mux, groups, heap, growth>>

\* One turn of the loop of wrap: h = mw[i](h); i--.
WrapIter ==
    /\ pure.out.pc = "wrap" /\ pure.out.i >= 1
    /\ pure' = [pure EXCEPT
                    !.out.h = Apply(pure.in.mw[pure.out.i], @),
                    !.out.applied = Append(@, pure.in.mw[pure.out.i].name),
                    !.out.i = @ - 1]
    /\ UNCHANGED <<mux, groups, heap, growth, lastOp>>

\* The loop of wrap ends: return h.
WrapReturn ==
    /\ pure.out.pc = "wrap" /\ pure.out.i < 1
    /\ pure' = [pure EXCEPT !.out.pc = "register"]
    /\ UNCHANGED <<mux, groups, heap, growth, lastOp>>

\* m.mux.Handle(pattern, wrapped): the ServeMux registers, or panics.
HandleRegister ==
    LET panic == registerPanics(mux.mux, pure.in.pattern, pure.out.h)
    IN  /\ pure.out.pc = "register"
        /\ mux' = IF panic THEN mux
                  ELSE [mux EXCEPT !.mux = register(@, pure.in.pattern, pure.out.h, 0)]
        /\ lastOp' = Call("Handle", 0, <<>>, pure.in.pattern, pure.in.h.term, ~panic)
        /\ pure' = [pure EXCEPT !.out.pc = "idle"]
        /\ UNCHANGED <<groups, heap, growth>>

NextWrap ==
    \/ \E mw \in WrapArgLists : WrapIdle /\ MuxUse(mw)
    \/ \E pattern \in PatternInputs : HandleEnter(pattern, H("h1"))
    \/ WrapIter
    \/ WrapReturn
    \/ HandleRegister
    \/ \E p \in DOMAIN mux.mux : WrapIdle /\ ServeHTTP(p)
    \/ WrapIdle /\ Recover

SpecWrap == InitWrap /\ [][NextWrap]_vars

\* ------------------------------------------------------------------ claims

\* The names of the middleware of a list, in order.
Names(mw) == [i \in 1..Len(mw) |-> mw[i].name]

\* The onion trace of middleware names ns around handler t:
\* ns[1].enter, ..., ns[N].enter, t, ns[N].exit, ..., ns[1].exit.
OnionTrace(ns, t) ==
    [i \in 1..(2 * Len(ns) + 1) |->
        IF i <= Len(ns) THEN Enter(ns[i])
        ELSE IF i = Len(ns) + 1 THEN Ran(t)
        ELSE Exit(ns[2 * Len(ns) + 2 - i])]

\* The scope a successful Group or With call has just created.
NewScope == Len(groups)

\* C1.  Onion order: the handler wrap(H, [m1..mN]) returns records
\* m1.enter, ..., mN.enter, H, mN.exit, ..., m1.exit when it serves a
\* request, and is H itself when N = 0.
OnionOrder ==
    pure.fn = "wrap" =>
        /\ pure.out.record = OnionTrace(Names(pure.in.mw), pure.in.h.term)
        /\ pure.in.mw = <<>> => pure.out.handler = pure.in.h

OnionOrderWitness ==
    /\ pure.fn = "wrap"
    /\ pure.in.mw = <<Fn("A"), Fn("B"), Fn("C")>>

\* C2.  Snapshot at Handle time: a successful Handle on scope S registers
\* the handler wrapped in exactly S's middleware list of that moment; no
\* later call changes a registered route, and a dispatch to it runs those
\* middleware around the handler.
SnapshotStep ==
    /\ \A p \in DOMAIN mux.mux : p \in DOMAIN mux'.mux /\ mux'.mux[p] = mux.mux[p]
    /\ (lastOp'.op = "Handle" /\ lastOp'.ok) =>
           \E p \in DOMAIN mux'.mux \ DOMAIN mux.mux :
               /\ DOMAIN mux'.mux = DOMAIN mux.mux \cup {p}
               /\ mux'.mux[p].by = lastOp'.scope
               /\ mux'.mux[p].handler.layers = Names(List(lastOp'.scope))
               /\ mux'.mux[p].handler.term = lastOp'.h
    /\ (lastOp'.op = "ServeHTTP" /\ mux.mux[lastOp'.str].handler.term # "nil") =>
           lastOp'.record = OnionTrace(mux.mux[lastOp'.str].handler.layers,
                                       mux.mux[lastOp'.str].handler.term)

SnapshotAtHandle == [][SnapshotStep]_vars

\* A request served by a route whose scope has, since the registration,
\* been given more middleware.
SnapshotWitness ==
    /\ lastOp.op = "ServeHTTP"
    /\ mux.mux[lastOp.str].handler.layers # <<>>
    /\ Len(List(mux.mux[lastOp.str].by)) > Len(mux.mux[lastOp.str].handler.layers)

\* C3.  Isolation of Use: a successful S.Use(mw...) changes the middleware
\* list of no scope other than S, and creates none.
UseIsolation ==
    [][(lastOp'.op = "Use" /\ lastOp'.ok) =>
          /\ Len(groups') = Len(groups)
          /\ \A t \in Scopes \ {lastOp'.scope} : List(t)' = List(t)]_vars

\* Use on a Group that has a non-empty parent and another Group beside it.
UseIsolationWitness ==
    /\ lastOp.op = "Use" /\ lastOp.ok /\ lastOp.mw # <<>>
    /\ Len(groups) = 2 /\ lastOp.scope = 1
    /\ List(0) # <<>> /\ List(2) # <<>>
    /\ List(1) # List(0) /\ List(1) # List(2)

\* C4.  Inheritance by copy: the Group a successful Group(prefix) on P
\* returns has P's list of that moment; and the list of a Group changes
\* only by its own successful Use, which appends the arguments in order.
CopyInheritanceStep ==
    /\ (lastOp'.op = "Group" /\ lastOp'.ok) =>
           /\ Len(groups') = Len(groups) + 1
           /\ List(NewScope)' = List(lastOp'.scope)
    /\ \A g \in 1..Len(groups) :
           List(g)' = IF lastOp'.op = "Use" /\ lastOp'.ok /\ lastOp'.scope = g
                      THEN List(g) \o lastOp'.mw
                      ELSE List(g)

CopyInheritance == [][CopyInheritanceStep]_vars

\* root.Use(A), then a Group of the root, then Use(B) on the Group.
CopyInheritanceWitness ==
    /\ lastOp.op = "Use" /\ lastOp.ok /\ lastOp.scope = 1 /\ lastOp.mw = <<B>>
    /\ groups[1].prefix = <<"/", "a">>
    /\ List(0) = <<A>>
    /\ List(1) = <<A, B>>

\* With(ms) on scope s in the current state: what the call returns.
WithOn(s, ms) ==
    IF s = 0 THEN Mux_With(mux, heap, ms, growth)
    ELSE Group_With(groups[s], heap, ms, growth)

\* C5.  With semantics: a successful S.With(ms...) returns a new scope whose
\* list is S's list followed by ms; and on every scope With(A).With(B)
\* returns a scope with the list With(A, B) returns.
WithStep ==
    (lastOp'.op = "With" /\ lastOp'.ok) =>
        /\ Len(groups') = Len(groups) + 1
        /\ List(NewScope)' = List(lastOp'.scope) \o lastOp'.mw

WithChaining ==
    \A s \in Scopes :
        LET both   == WithOn(s, <<A, B>>)
            first  == WithOn(s, <<A>>)
            second == Group_With(first.group, first.heap, <<B>>, growth)
        IN  /\ ~both.panic /\ ~second.panic
            /\ Elems(both.heap, both.group.middleware)
                   = Elems(second.heap, second.group.middleware)
            /\ Elems(both.heap, both.group.middleware) = List(s) \o <<A, B>>

WithSemantics == []WithChaining /\ [][WithStep]_vars

\* With(B) on a Group whose list is [A].
WithSemanticsWitness ==
    /\ lastOp.op = "With" /\ lastOp.ok /\ lastOp.mw = <<B>>
    /\ lastOp.scope >= 1
    /\ List(lastOp.scope) = <<A>>
    /\ List(NewScope) = <<A, B>>

\* C6.  Group and With are read-only on the receiver: whether the call
\* returns or panics, the list and the prefix of every existing scope and
\* the route table are what they were.
GroupWithReadOnly ==
    [][lastOp'.op \in {"Group", "With"} =>
          /\ mux'.mux = mux.mux
          /\ \A s \in Scopes : List(s)' = List(s) /\ Prefix(s)' = Prefix(s)]_vars

\* With of some middleware on a Mux that has middleware and a route.
GroupWithReadOnlyWitness ==
    /\ lastOp.op = "With" /\ lastOp.ok /\ lastOp.mw # <<>>
    /\ lastOp.scope = 0
    /\ List(0) # <<>>
    /\ DOMAIN mux.mux # {}

\* C7.  Use is all-or-nothing on nil: a Use whose arguments hold a nil at
\* any position panics and leaves every middleware list, and the rest of
\* the state, as it was.
UseAllOrNothing ==
    [][(lastOp'.op = "Use" /\ \E i \in 1..Len(lastOp'.mw) : lastOp'.mw[i] = NilMw) =>
          /\ ~lastOp'.ok
          /\ \A s \in Scopes : List(s)' = List(s)
          /\ UNCHANGED <<mux, groups, heap>>]_vars

\* Use(A, nil) on a scope that has middleware has panicked.
UseAllOrNothingWitness ==
    /\ lastOp.op = "Use" /\ ~lastOp.ok
    /\ lastOp.mw = <<A, NilMw>>
    /\ List(lastOp.scope) # <<>>

\* C8.  Group prefix validation: Group(prefix) on a Mux or a Group panics
\* exactly when prefix is non-empty and does not start with "/"; when it
\* panics nothing changes, otherwise one scope is created.
GroupPrefixValidation ==
    [][lastOp'.op = "Group" =>
          LET bad == lastOp'.str # <<>> /\ lastOp'.str[1] # "/"
          IN  /\ lastOp'.ok <=> ~bad
              /\ bad => UNCHANGED <<mux, groups, heap>>
              /\ ~bad => Len(groups') = Len(groups) + 1]_vars

\* Group("a") on a Group has panicked, where a Group of empty prefix exists.
GroupPrefixValidationWitness ==
    /\ lastOp.op = "Group" /\ ~lastOp.ok /\ lastOp.scope >= 1
    /\ lastOp.str = <<"a">>
    /\ \E g \in 1..Len(groups) : groups[g].prefix = <<>>

\* C9.  joinPattern(prefix, pattern), with (method, path) the result of
\* splitMethodPath(pattern), is P + Q, after method + " " when method is not
\* empty: P is prefix less one trailing "/" if it has one, Q is path with a
\* "/" put in front unless it starts with one.
JoinPatternDefinition ==
    pure.fn = "joinPattern" =>
        LET prefix == pure.in.prefix
            sp     == splitMethodPath(pure.in.pattern)
            P      == IF Len(prefix) > 0 /\ prefix[Len(prefix)] = "/"
                      THEN SubSeq(prefix, 1, Len(prefix) - 1) ELSE prefix
            Q      == IF Len(sp.path) > 0 /\ sp.path[1] = "/"
                      THEN sp.path ELSE <<"/">> \o sp.path
            in(a, b) == pure.in.prefix = a /\ pure.in.pattern = b
        IN  /\ pure.out = IF sp.method = <<>> THEN P \o Q
                          ELSE sp.method \o <<" ">> \o P \o Q
            /\ in(<<"/">>, <<"/", "x">>) => pure.out = <<"/", "x">>
            /\ in(<<>>, <<"/", "x">>) => pure.out = <<"/", "x">>
            /\ in(<<"/", "a", "/">>, <<"/", "x">>) => pure.out = <<"/", "a", "/", "x">>
            /\ in(<<"/", "a">>, GET \o <<" ", "x">>)
                   => pure.out = GET \o <<" ", "/", "a", "/", "x">>
            /\ in(<<"/", "a", "/", "/">>, <<"/", "x">>)
                   => pure.out = <<"/", "a", "/", "/", "x">>

\* joinPattern("/a//", "GET x") has been computed.
JoinPatternDefinitionWitness ==
    /\ pure.fn = "joinPattern"
    /\ pure.in.prefix = <<"/", "a", "/", "/">>
    /\ pure.in.pattern = GET \o <<" ", "x">>
    /\ pure.out = GET \o <<" ", "/", "a", "/", "/", "x">>

\* C10.  splitMethodPath(pattern) is (M, the text after the first space)
\* exactly when pattern has a space and the text M before the first one is
\* one of the nine methods, and ("", pattern) otherwise; so pattern is path
\* when method is empty and method + " " + path when it is not.
SplitMethodPathDefinition ==
    pure.fn = "splitMethodPath" =>
        LET p        == pure.in.pattern
            spaces   == {i \in 1..Len(p) : p[i] = " "}
            first    == CHOOSE i \in spaces : \A j \in spaces : i <= j
            before   == SubSeq(p, 1, first - 1)
            after    == SubSeq(p, first + 1, Len(p))
            isMethod == spaces # {} /\ before \in
                            {GET, POST, PUT, DELETE, PATCH, HEAD, OPTIONS, CONNECT, TRACE}
        IN  /\ isMethod => pure.out = [method |-> before, path |-> after]
            /\ ~isMethod => pure.out = [method |-> <<>>, path |-> p]
            /\ p = IF pure.out.method = <<>> THEN pure.out.path
                   ELSE pure.out.method \o <<" ">> \o pure.out.path

\* splitMethodPath("UNKNOWN /x") has been computed.
SplitMethodPathDefinitionWitness ==
    /\ pure.fn = "splitMethodPath"
    /\ pure.in.pattern = <<"U", "N", "K", "N", "O", "W", "N", " ", "/", "x">>
    /\ pure.out.method = <<>>

RECURSIVE PrefixSum(_)
\* p1 + p2 + ... + pn for the row of Group calls cs.
PrefixSum(cs) == IF cs = <<>> THEN <<>> ELSE Head(cs).prefix \o PrefixSum(Tail(cs))

\* A Group prefix that starts with "/" and does not end with one.
CleanPrefix(q) == Len(q) >= 2 /\ q[1] = "/" /\ q[Len(q)] # "/"

\* method + " " + text, or text alone when there is no method.
WithMethod(method, text) == IF method = <<>> THEN text ELSE method \o <<" ">> \o text

\* C11.  Nested group concatenation: after root.Group(p1)...Group(pn), each
\* pi starting with "/" and not ending with one, a successful Handle of
\* "[METHOD ]/path" on the innermost Group has registered the handler under
\* "[METHOD ]" + p1 + ... + pn + "/path" in the root's table.
NestedConcatenation ==
    ( /\ pure.fn = "nest" /\ lastOp.op = "Handle" /\ lastOp.ok
      /\ pure.in # <<>>
      /\ \A i \in 1..Len(pure.in) :
             pure.in[i].op = "Group" /\ CleanPrefix(pure.in[i].prefix) )
    => \A method \in Methods \cup {<<>>} :
           LET path == SubSeq(lastOp.str, Len(WithMethod(method, <<>>)) + 1,
                              Len(lastOp.str))
               full == WithMethod(method, PrefixSum(pure.in) \o path)
           IN  (lastOp.str = WithMethod(method, path) /\ HasPrefix(path, <<"/">>))
               => /\ pure.out = full
                  /\ full \in DOMAIN mux.mux
                  /\ mux.mux[full].by = Innermost
                  /\ mux.mux[full].handler.term = lastOp.h

\* root.Group("/a").Group("/b").Group("/a") has registered "GET /x" under
\* "GET /a/b/a/x".
NestedConcatenationWitness ==
    /\ pure.fn = "nest" /\ lastOp.op = "Handle" /\ lastOp.ok
    /\ pure.in = <<NestCall("Group", <<"/", "a">>), NestCall("Group", <<"/", "b">>),
                   NestCall("Group", <<"/", "a">>)>>
    /\ lastOp.str = GET \o <<" ", "/", "x">>
    /\ DOMAIN mux.mux = {GET \o <<" ", "/", "a", "/", "b", "/", "a", "/", "x">>}

\* C12.  Chain equivalence: for every list ms and handler H, serving
\* Chain(ms...)(H) records what serving wrap(H, ms) records, the onion of ms
\* around H; Chain()(H) is H; and a handler wrapped with the list
\* [Chain(ms...)] records the same.
ChainEquivalence ==
    pure.fn = "Chain" =>
        /\ pure.out.record = Invoke(wrap(pure.in.h, pure.in.mw))
        /\ pure.out.record = OnionTrace(Names(pure.in.mw), pure.in.h.term)
        /\ pure.in.mw = <<>> => pure.out.handler = pure.in.h
        /\ pure.out.scope = pure.out.record

\* Chain(A, B, C)(h1) has served: A, B, C, h1, C, B, A.
ChainEquivalenceWitness ==
    /\ pure.fn = "Chain"
    /\ pure.in.mw = <<Fn("A"), Fn("B"), Fn("C")>>
    /\ pure.out.scope = <<Enter("A"), Enter("B"), Enter("C"), Ran(pure.in.h.term),
                          Exit("C"), Exit("B"), Exit("A")>>

\* C13.  Nil handler is rejected at registration: on every scope, whatever
\* its middleware list, Handle(pattern, nil) fails at the call; so no
\* registered route has a nil terminal handler and no dispatch fails on one.
NilHandlerRejected ==
    /\ (lastOp.op = "Handle" /\ lastOp.h = "nil") => ~lastOp.ok
    /\ \A p \in DOMAIN mux.mux : mux.mux[p].handler.term # "nil"
    /\ lastOp.op = "ServeHTTP" => ~Panicked(lastOp.record)

\* A request has entered the middleware of a route and failed on the nil
\* handler inside them.
NilHandlerDispatchPanics ==
    /\ lastOp.op = "ServeHTTP"
    /\ Panicked(lastOp.record)
    /\ Len(lastOp.record) >= 2
    /\ mux.mux[lastOp.str].handler.term = "nil"

\* Some element of mw is nil.
SomeNil(mw) == \E i \in 1..Len(mw) : mw[i] = NilMw

\* C14.  Nil middleware is rejected at the call that puts it into a chain:
\* Use, With and Chain each fail when an argument is nil; so no list held by
\* a scope, and none captured by a Chain value, contains nil, and no Handle
\* runs wrap over a nil middleware.
NilMiddlewareRejected ==
    /\ (lastOp.op \in {"Use", "With", "Chain"} /\ SomeNil(lastOp.mw)) => ~lastOp.ok
    /\ ~SomeNil(pure.out.mw)
    /\ \A s \in Scopes :
           /\ ~SomeNil(List(s))
           /\ \A i \in 1..Len(List(s)) : ~SomeNil(List(s)[i].mw)
    /\ lastOp.op = "Handle" => ~CallsNil(List(lastOp.scope))

\* Handle of a good handler under a free pattern has panicked inside wrap,
\* on the nil a Chain value of the scope's list holds.
NilInsideChainAtHandle ==
    /\ lastOp.op = "Handle" /\ ~lastOp.ok /\ lastOp.h # "nil"
    /\ DOMAIN mux.mux = {}
    /\ ~SomeNil(List(lastOp.scope))
    /\ \E i \in 1..Len(List(lastOp.scope)) : SomeNil(List(lastOp.scope)[i].mw)

\* C15.  Mux.With registers patterns as-is: a successful Handle(p, h) on
\* the Router that Mux.With(...) returned has registered the handler under
\* exactly p, the pattern Mux.Handle(p, h) hands to the ServeMux.
MuxWithPatternAsIs ==
    ( /\ pure.fn = "nest" /\ lastOp.op = "Handle" /\ lastOp.ok
      /\ pure.in = <<NestCall("With", <<>>)>> )
    => /\ pure.out = lastOp.str
       /\ lastOp.str \in DOMAIN mux.mux
       /\ pure.out = Mux_Handle(mux, heap, lastOp.str, H(lastOp.h)).full

\* m.With(...).Handle("a/x", h), a host and a path, has registered "/a/x".
MuxWithPatternChanged ==
    /\ pure.fn = "nest" /\ lastOp.op = "Handle" /\ lastOp.ok
    /\ pure.in = <<NestCall("With", <<>>)>>
    /\ lastOp.str = <<"a", "/", "x">>
    /\ DOMAIN mux.mux = {<<"/", "a", "/", "x">>}

\* A call that makes a scope of no prefix of its own: With, or Group("").
KeepsPrefix(c) == c.op = "With" \/ (c.op = "Group" /\ c.prefix = <<>>)

\* C16.  Group.With and Group.Group("") keep the effective prefix: for a
\* Group g of any stored prefix, Handle(p) on a scope made from g by any
\* number of With and Group("") calls hands the ServeMux the full pattern
\* that g.Handle(p) hands it.
EffectivePrefixKept ==
    (pure.fn = "nest" /\ lastOp.op = "Handle") =>
        /\ lastOp.ok => pure.out \in DOMAIN mux.mux
        /\ \A g \in 1..Len(pure.in) :
               (\A i \in (g + 1)..Len(pure.in) : KeepsPrefix(pure.in[i])) =>
                   pure.out = Group_Handle(groups[g], g, mux, heap,
                                           lastOp.str, H(lastOp.h)).full

\* root.Group("/a").With(...).Group("") has registered "GET x" under
\* "GET /a/x".
EffectivePrefixKeptWitness ==
    /\ pure.fn = "nest" /\ lastOp.op = "Handle" /\ lastOp.ok
    /\ pure.in = <<NestCall("Group", <<"/", "a">>), NestCall("With", <<>>),
                   NestCall("Group", <<>>)>>
    /\ lastOp.str = GET \o <<" ", "x">>
    /\ DOMAIN mux.mux = {GET \o <<" ", "/", "a", "/", "x">>}

\* The full pattern a Handle of pattern on scope s hands to the ServeMux.
FullPattern(s, pattern) ==
    IF s = 0 THEN pattern ELSE joinPattern(Prefix(s), pattern)

\* C17.  Registration errors are propagated and leave the state intact: a
\* Handle whose full pattern is already registered, by the same or by
\* another scope, panics at that call; and whenever Handle panics the table
\* maps every pattern to the handler it had, and no list or prefix changes.
RegistrationErrorStep ==
    lastOp'.op = "Handle" =>
        /\ FullPattern(lastOp'.scope, lastOp'.str) \in DOMAIN mux.mux => ~lastOp'.ok
        /\ ~lastOp'.ok =>
               /\ mux'.mux = mux.mux
               /\ \A s \in Scopes : List(s)' = List(s) /\ Prefix(s)' = Prefix(s)
               /\ UNCHANGED <<mux, groups, heap>>

RegistrationErrors == [][RegistrationErrorStep]_vars

\* A Group's Handle of a good handler has panicked on a full pattern that
\* the Mux itself had registered.
RegistrationErrorsWitness ==
    /\ lastOp.op = "Handle" /\ ~lastOp.ok /\ lastOp.h # "nil"
    /\ lastOp.scope >= 1
    /\ ~CallsNil(List(lastOp.scope))
    /\ FullPattern(lastOp.scope, lastOp.str) \in DOMAIN mux.mux
    /\ mux.mux[FullPattern(lastOp.scope, lastOp.str)].by = 0

\* The list of scope s after the calls Use(first...) and Use(second...).
AfterTwoUses(s, first, second) ==
    LET u == Use(heap, Slice(s), first, growth)
        v == Use(u.heap, u.slice, second, growth)
    IN  [panic |-> u.panic \/ v.panic, list |-> Elems(v.heap, v.slice)]

\* C18.  Use accumulates in call order: a successful Use(mw...) on a scope
\* makes its list the old list followed by mw, so Use() leaves it as it is;
\* and on every scope Use(A) then Use(B), like any other split of the
\* arguments over two calls, leaves the list the one call Use(A, B) leaves.
UseAppendsStep ==
    (lastOp'.op = "Use" /\ lastOp'.ok) =>
        \A s \in Scopes :
            s = lastOp'.scope => List(s)' = List(s) \o lastOp'.mw

UseSplits ==
    \A s \in Scopes :
        LET whole == AfterTwoUses(s, <<A, B>>, <<>>)
        IN  /\ ~whole.panic /\ whole.list = List(s) \o <<A, B>>
            /\ AfterTwoUses(s, <<A>>, <<B>>) = whole
            /\ AfterTwoUses(s, <<>>, <<A, B>>) = whole
            /\ AfterTwoUses(s, <<>>, <<>>) = [panic |-> FALSE, list |-> List(s)]

UseAccumulates == []UseSplits /\ [][UseAppendsStep]_vars

\* Use(A) and then Use(B) on the Mux have made its list [A, B].
UseAccumulatesWitness ==
    /\ lastOp.op = "Use" /\ lastOp.ok /\ lastOp.scope = 0
    /\ lastOp.mw = <<B>>
    /\ List(0) = <<A, B>>

\* C19.  Raw engine bypass: a handler registered on the ServeMux that
\* Mux.Handler() returns is stored bare and a dispatch runs it alone,
\* whatever the Mux's list is then or later; and a route registered through
\* Handle is served through the returned ServeMux with the middleware it was
\* registered with.
RawEngineStep ==
    /\ \A p \in DOMAIN mux.mux : p \in DOMAIN mux'.mux /\ mux'.mux[p] = mux.mux[p]
    /\ (lastOp'.op = "Handler.Handle" /\ lastOp'.ok) =>
           /\ DOMAIN mux'.mux = DOMAIN mux.mux \cup {lastOp'.str}
           /\ lastOp'.str \notin DOMAIN mux.mux
           /\ mux'.mux[lastOp'.str] = [handler |-> H(lastOp'.h), by |-> Engine]
           /\ UNCHANGED <<groups, heap>> /\ mux'.middleware = mux.middleware
    /\ (lastOp'.op = "Handle" /\ lastOp'.ok) =>
           mux'.mux[lastOp'.str] = [handler |-> [layers |-> Names(List(0)),
                                                 term   |-> lastOp'.h],
                                    by      |-> 0]
    /\ lastOp'.op \in {"ServeHTTP", "Handler.ServeHTTP"} =>
           LET route == mux.mux[lastOp'.str]
           IN  /\ lastOp'.record = OnionTrace(route.handler.layers, route.handler.term)
               /\ route.by = Engine => lastOp'.record = <<Ran(route.handler.term)>>

RawEngineBypass == [][RawEngineStep]_vars

\* With middleware on the Mux and a route wrapped in it, a route registered
\* on the ServeMux itself has been served, bare.
RawEngineBypassWitness ==
    /\ lastOp.op = "ServeHTTP"
    /\ mux.mux[lastOp.str].by = Engine
    /\ lastOp.record = <<Ran(mux.mux[lastOp.str].handler.term)>>
    /\ List(0) # <<>>
    /\ \E p \in DOMAIN mux.mux : mux.mux[p].by = 0 /\ mux.mux[p].handler.layers # <<>>

\* C20.  Dispatch is read-only and safe to run concurrently: once the
\* program serves, every step of any of the interleaved ServeHTTP calls
\* leaves the lists, the prefixes and the route table as they are, and each
\* call runs the composite handler registered under its pattern: what it
\* has recorded is always the beginning of that handler's onion.
DispatchRuns ==
    Serving =>
        \A i \in 1..Len(pure.in) :
            LET r     == pure.in[i]
                reg   == mux.mux[r.pattern].handler
                onion == OnionTrace(reg.layers, reg.term)
            IN  /\ r.handler = reg
                /\ Len(r.trace) <= Len(onion)
                /\ r.trace = SubSeq(onion, 1, Len(r.trace))
                /\ Served(r) <=> r.trace = onion

DispatchStep ==
    Serving' =>
        /\ UNCHANGED <<mux, groups, heap>>
        /\ \A s \in Scopes : List(s)' = List(s) /\ Prefix(s)' = Prefix(s)

DispatchReadOnly == []DispatchRuns /\ [][DispatchStep]_vars

\* Of two requests for different routes, the later one has run its whole
\* onion while the earlier one is inside its middleware.
DispatchReadOnlyWitness ==
    /\ Serving /\ Len(pure.in) = 2
    /\ pure.in[1].pattern # pure.in[2].pattern
    /\ pure.in[1].handler.layers # <<>> /\ pure.in[2].handler.layers # <<>>
    /\ Len(pure.in[1].trace) = 1
    /\ Served(pure.in[2])
    /\ pure.in[2].trace = OnionTrace(mux.mux[pure.in[2].pattern].handler.layers, "h1")

\* Both goroutines have left Use.
RaceOver ==
    Racing /\ \A t \in RaceThreads : ThreadOf(t).pc \in {"done", "fault", "panicked"}

\* C21.  Registration is not safe for concurrent use on one scope: when the
\* two Use calls are serialised, both return and the list is the old list
\* followed by both middleware, in the order of the calls.  (Unserialised,
\* a list that lacks one of them is reached: LostUse.)
SerialisedUseKeepsBoth ==
    (RaceOver /\ pure.in.serial) =>
        /\ \A t \in RaceThreads : ThreadOf(t).pc = "done"
        /\ List(0) \in {pure.in.before \o <<A, B>>, pure.in.before \o <<B, A>>}

\* Unserialised, both calls have returned and the list is the old list
\* followed by one middleware only.
LostUse ==
    /\ RaceOver /\ ~pure.in.serial
    /\ \A t \in RaceThreads : ThreadOf(t).pc = "done"
    /\ mux.middleware.len <= Cap(heap, mux.middleware)
    /\ List(0) \in {pure.in.before \o <<A>>, pure.in.before \o <<B>>}

\* The sequence s, last element first.
Reversed(s) == [i \in 1..Len(s) |-> s[Len(s) + 1 - i]]

\* C22.  Wrapping happens only at registration: when Handle hands the route
\* to the ServeMux, wrap has called each middleware function of the scope's
\* list [m1..mN] exactly once, in the order mN, ..., m1; and serving a
\* request calls no middleware function: it runs the stored closures.
WrappedAtRegistration ==
    /\ pure.out.pc \in {"register", "idle"} =>
           /\ pure.out.applied = Reversed(Names(pure.in.mw))
           /\ pure.out.h = [layers |-> Names(pure.in.mw), term |-> pure.in.h.term]
    /\ (lastOp.op = "Handle" /\ lastOp.ok) =>
           mux.mux[pure.in.pattern].handler.layers = Reversed(pure.out.applied)

WrapOnlyStep ==
    /\ pure'.out.applied # pure.out.applied =>
           /\ pure'.out.pc = "wrap"
           /\ mux' = mux
    /\ lastOp'.op = "ServeHTTP" =>
           /\ pure' = pure /\ mux' = mux
           /\ lastOp'.record = OnionTrace(mux.mux[lastOp'.str].handler.layers,
                                          mux.mux[lastOp'.str].handler.term)

WrappingOnlyAtRegistration == []WrappedAtRegistration /\ [][WrapOnlyStep]_vars

\* A route registered under the list [A, B], for which wrap called B and
\* then A, has served a request.
WrappingOnlyAtRegistrationWitness ==
    /\ lastOp.op = "ServeHTTP"
    /\ lastOp.str = pure.in.pattern
    /\ pure.in.mw = <<A, B>>
    /\ pure.out.applied = <<"B", "A">>
    /\ Len(lastOp.record) = 5

\* C23.  In a row of scopes made by Group and With from a new Mux, every
\* Group's stored prefix is empty or starts with "/", and every Group made
\* by Group.Group (directly, or through Group.With) has a non-empty prefix
\* that starts with "/".
PrefixInvariant ==
    \A g \in 1..Len(groups) :
        /\ Prefix(g) = <<>> \/ HasPrefix(Prefix(g), <<"/">>)
        /\ g > 1 => Prefix(g) # <<>> /\ HasPrefix(Prefix(g), <<"/">>)

\* A Group with the empty prefix, a Group that With made from it, and a
\* Group that Group("/a/") made from that one.
PrefixInvariantWitness ==
    /\ Len(groups) = 3
    /\ pure.in[2].op = "With" /\ pure.in[3] = NestCall("Group", <<"/", "a", "/">>)
    /\ Prefix(1) = <<>>
    /\ Prefix(2) = <<"/">>
    /\ Prefix(3) = <<"/", "a", "/">>

\* C24.  Lists only grow at the end, and a scope keeps its prefix and its
\* Mux: in every step each scope's list before the step is a prefix of its
\* list after it, the scope's prefix and Mux pointer are unchanged, and every
\* Group points at the one Mux.
ScopeKeptStep ==
    \A s \in Scopes :
        /\ Len(List(s)) <= Len(List(s)')
        /\ SubSeq(List(s)', 1, Len(List(s))) = List(s)
        /\ Prefix(s)' = Prefix(s)
        /\ s > 0 => groups'[s].mux = groups[s].mux

OneMux == \A g \in 1..Len(groups) : groups[g].mux = TheMux

AppendOnlyFixedIdentity == []OneMux /\ [][ScopeKeptStep]_vars

\* A Group with a prefix whose list, copied from the Mux, has grown by its
\* own Use, next to a Mux whose list has grown since the copy.
AppendOnlyFixedIdentityWitness ==
    /\ Len(groups) = 1
    /\ Prefix(1) # <<>>
    /\ lastOp.op = "Use" /\ lastOp.ok /\ lastOp.scope = 1
    /\ Len(List(1)) = 2 /\ Len(List(0)) = 2
    /\ List(1)[1] = List(0)[1]
    /\ List(1)[2] # List(0)[2]

\* C25.  Handle(p, h) on the Mux hands the ServeMux exactly the string p,
\* and a registration that succeeds is held under p: no slash is put in
\* front, no trailing slash is taken off and the method token is not looked
\* at.
RootRegistersAsGiven ==
    (lastOp.op = "Handle" /\ lastOp.scope = 0) =>
        /\ pure.out = lastOp.str
        /\ lastOp.ok => /\ lastOp.str \in DOMAIN mux.mux
                        /\ mux.mux[lastOp.str].by = 0

\* The Mux has registered "x" as "x", a pattern that joinPattern with the
\* empty prefix would have turned into "/x".
RootRegistersAsGivenWitness ==
    /\ lastOp.op = "Handle" /\ lastOp.scope = 0 /\ lastOp.ok
    /\ lastOp.str = <<"x">>
    /\ DOMAIN mux.mux = {<<"x">>}
    /\ joinPattern(<<>>, <<"x">>) = <<"/", "x">>

\* C26.  Chain nests and can be used again: with a list cut in two at any
\* place, Chain(l..., Chain(r...))(H) and Chain(Chain(l...), r...)(H) record
\* what Chain(l..., r...)(H) records; a Chain value inside a list given to
\* wrap acts as its elements at that place; and one Chain value called on
\* two handlers gives two composites, each the whole onion around its own
\* handler.
ChainNestsAndRepeats ==
    pure.fn = "Chain.nested" =>
        LET flat == Invoke(Apply(Chain(pure.in.mw), pure.in.h))
        IN  /\ flat = OnionTrace(Names(pure.in.mw), pure.in.h.term)
            /\ pure.out.inner = flat
            /\ pure.out.outer = flat
            /\ pure.out.listInner = flat
            /\ pure.out.listOuter = flat
            /\ pure.out.first = flat
            /\ pure.out.second = OnionTrace(Names(pure.in.mw), pure.out.other.term)

\* Chain(A, Chain(B, C)) and Chain(Chain(A), B, C) around h1 have served
\* A, B, C, h1, C, B, A, and Chain(A, B, C) around h2 the same with h2.
ChainNestsAndRepeatsWitness ==
    /\ pure.fn = "Chain.nested"
    /\ pure.in.mw = <<Fn("A"), Fn("B"), Fn("C")>> /\ pure.out.cut = 1
    /\ pure.in.h = H("h1")
    /\ pure.out.inner = <<Enter("A"), Enter("B"), Enter("C"), Ran("h1"),
                          Exit("C"), Exit("B"), Exit("A")>>
    /\ pure.out.listOuter = pure.out.inner
    /\ pure.out.second = <<Enter("A"), Enter("B"), Enter("C"), Ran("h2"),
                           Exit("C"), Exit("B"), Exit("A")>>

\* C27.  Joining is associative: for prefixes p and q that Group accepts
\* and every pattern r, joinPattern(joinPattern(p, q), r) =
\* joinPattern(p, joinPattern(q, r)), and the result carries the method
\* token of r, once.
JoinAssociative ==
    pure.fn = "joinPattern.twice" =>
        /\ pure.out.nested = pure.out.flat
        /\ splitMethodPath(pure.out.nested).method = splitMethodPath(pure.in.pattern).method
        /\ splitMethodPath(splitMethodPath(pure.out.nested).path).method = <<>>

\* p = "/a/", q = "/a/" and r = "GET x" give "GET /a/a/x" both ways.
JoinAssociativeWitness ==
    /\ pure.fn = "joinPattern.twice"
    /\ pure.in.prefix = <<"/", "a", "/">> /\ pure.out.q = <<"/", "a", "/">>
    /\ pure.in.pattern = GET \o <<" ", "x">>
    /\ pure.out.nested = GET \o <<" ", "/", "a", "/", "a", "/", "x">>
    /\ pure.out.flat = pure.out.nested

RECURSIVE TrimLeft(_, _)
\* s without its leading run of c.
TrimLeft(s, c) == IF Len(s) > 0 /\ s[1] = c THEN TrimLeft(Tail(s), c) ELSE s

\* "/..." or a method token, one space and "/...".
WellFormed(p) ==
    \/ HasPrefix(p, <<"/">>)
    \/ \E m \in Methods : HasPrefix(p, m \o <<" ", "/">>)

\* C28.  Every full pattern a Group has handed to the ServeMux starts with
\* "/" or is a method token, one space and a string starting with "/"; and
\* when the Group's prefix ends in at most one "/" and the pattern's path
\* starts with at most one "/", the path of the full pattern is the prefix
\* without its trailing "/", one "/", and the path without its leading "/".
WellFormedGroupRoutes ==
    /\ \A p \in DOMAIN mux.mux : mux.mux[p].by >= 1 => WellFormed(p)
    /\ (lastOp.op = "Handle" /\ lastOp.scope >= 1) =>
           LET prefix == Prefix(lastOp.scope)
               path   == splitMethodPath(lastOp.str).path
               pre    == TrimRight(prefix, "/")
               rest   == TrimLeft(path, "/")
           IN  /\ WellFormed(pure.out)
               /\ (Len(prefix) - Len(pre) <= 1 /\ Len(path) - Len(rest) <= 1) =>
                      /\ splitMethodPath(pure.out).path = pre \o <<"/">> \o rest
                      /\ ~HasSuffix(pre, <<"/">>) /\ ~HasPrefix(rest, <<"/">>)

\* A Group whose prefix is "/a/" has registered "GET /x" as "GET /a/x".
WellFormedGroupRoutesWitness ==
    /\ lastOp.op = "Handle" /\ lastOp.ok /\ lastOp.scope >= 1
    /\ Prefix(lastOp.scope) = <<"/", "a", "/">>
    /\ lastOp.str = GET \o <<" ", "/", "x">>
    /\ DOMAIN mux.mux = {GET \o <<" ", "/", "a", "/", "x">>}

=============================================================================
